---------------------------- MODULE Spec2Model ----------------------------
(***************************************************************************)
(* Model of the project-tree extractors of claude-exporter:                *)
(*   src/fiction_index.py       (h1, h3 and mega-block strategies, driver) *)
(*   src/open-learning-cloud.py (loose variant, driver)                    *)
(*                                                                         *)
(* A Python str is a sequence of one-character strings, so that the regex  *)
(* match, split, join and strip are computed and not assumed.              *)
(***************************************************************************)
EXTENDS Integers, Sequences, FiniteSets, TLC

VARIABLES
  cand,            \* is_path driver: the candidate string p
  verdict,         \* is_path driver: <<fiction_index, open-learning-cloud>> results
  tool,            \* which script's main() is running
  doc,             \* main: tokens = md.parse(src), top-level token stream
  pc,              \* control location
  k,               \* pass_01 / pass_02: index of t in the top-level loop
  tokens,          \* strategy argument: the (re-parsed) token stream
  i,               \* strategy: index of t in zip(tokens, tokens[1:])
  path,            \* strategy local
  skip,            \* strategy local
  content_prefix,  \* pass_01_fence_md_h1 local
  h1_is_content,   \* pass_01_fence_md_h1 local
  content_lines,   \* pass_01_fence_md_h1 local
  chunks,          \* pass_02_fence_ts argument, the part not yet iterated
  paths,           \* main's paths, in extension order
  fs,              \* the file system below the working directory
  units,           \* history: every (path, content) handed to a successful write_file
  marker,          \* history: index in tokens of the heading that set path
  out,             \* lines printed by main
  err,             \* the exception that ended the run, or "none"
  run,             \* history: 1 in the first run of the script, 2 in the second
  first,           \* history: what the first run left, once it has ended
  code_blocks,     \* ConversationParser.code_blocks
  responses,       \* ConversationParser.responses
  filepath,        \* export_scripts / export_docs local
  counter,         \* export_scripts / export_docs local
  executable       \* the files whose mode os.chmod set to 0o755

vars == <<cand, verdict, tool, doc, pc, k, tokens, i, path, skip, content_prefix,
          h1_is_content, content_lines, chunks, paths, fs, units, marker, out, err,
          run, first, code_blocks, responses, filepath, counter, executable>>

---------------------------------------------------------------------------
(* Characters and strings *)

Lower == {"a","b","c","d","e","f","g","h","i","j","k","l","m",
          "n","o","p","q","r","s","t","u","v","w","x","y","z"}

Upper == {"A","B","C","D","E","F","G","H","I","J","K","L","M",
          "N","O","P","Q","R","S","T","U","V","W","X","Y","Z"}

\* str.strip() and str.split() with no argument act on whitespace
Whitespace == {" ", "\n", "\t", "\r"}

None == "None"

LICENSE == <<"L","I","C","E","N","S","E">>

RECURSIVE Join(_, _)
\* sep.join(lines)
Join(lines, sep) ==
  IF lines = <<>> THEN <<>>
  ELSE IF Len(lines) = 1 THEN lines[1]
  ELSE lines[1] \o sep \o Join(Tail(lines), sep)

RECURSIVE LStrip(_)
LStrip(s) ==
  IF s # <<>> /\ s[1] \in Whitespace THEN LStrip(Tail(s)) ELSE s

RECURSIVE RStrip(_)
RStrip(s) ==
  IF s # <<>> /\ s[Len(s)] \in Whitespace THEN RStrip(SubSeq(s, 1, Len(s) - 1)) ELSE s

\* str.strip()
Strip(s) == RStrip(LStrip(s))

RECURSIVE SplitOn(_, _)
\* s.split(c) for a one-character separator: the list of pieces, never empty
SplitOn(s, c) ==
  IF \E n \in 1..Len(s) : s[n] = c
  THEN LET n == CHOOSE n \in 1..Len(s) : s[n] = c /\ \A m \in 1..(n - 1) : s[m] # c
       IN <<SubSeq(s, 1, n - 1)>> \o SplitOn(SubSeq(s, n + 1, Len(s)), c)
  ELSE <<s>>

RECURSIVE SplitWords(_)
\* s.split(): the whitespace-delimited words, possibly none
SplitWords(s) ==
  LET r == LStrip(s)
  IN IF r = <<>> THEN <<>>
     ELSE LET n == IF \E m \in 1..Len(r) : r[m] \in Whitespace
                   THEN (CHOOSE m \in 1..Len(r) :
                           r[m] \in Whitespace /\ \A j \in 1..(m - 1) : r[j] \notin Whitespace) - 1
                   ELSE Len(r)
          IN <<SubSeq(r, 1, n)>> \o SplitWords(SubSeq(r, n + 1, Len(r)))

RECURSIVE SplitLines(_)
\* s.splitlines(): lines without their line break; no empty last line
SplitLines(s) ==
  IF s = <<>> THEN <<>>
  ELSE IF \E n \in 1..Len(s) : s[n] = "\n"
  THEN LET n == CHOOSE n \in 1..Len(s) : s[n] = "\n" /\ \A m \in 1..(n - 1) : s[m] # "\n"
       IN <<SubSeq(s, 1, n - 1)>> \o SplitLines(SubSeq(s, n + 1, Len(s)))
  ELSE <<s>>

RECURSIVE Spaces(_)
\* ' ' * n
Spaces(n) == IF n <= 0 THEN <<>> ELSE <<" ">> \o Spaces(n - 1)

---------------------------------------------------------------------------
(* Path Recognizer *)

\* [.A-Za-z]
FirstClass == {"."} \cup Upper \cup Lower

\* [/\-_A-Za-z]
MidClass == {"/", "-", "_"} \cup Upper \cup Lower

\* $ : at the end of the string, or just before a final line break
AtEnd(p, n) == n = Len(p) + 1 \/ (n = Len(p) /\ p[n] = "\n")

RECURSIVE MatchLower(_, _)
RECURSIVE MatchExt(_, _)
\* [a-z]+ has consumed one letter or more up to n-1: take another, or go on
MatchLower(p, n) ==
  \/ MatchExt(p, n)
  \/ n <= Len(p) /\ p[n] \in Lower /\ MatchLower(p, n + 1)

\* (\.[a-z]+)*$ from position n
MatchExt(p, n) ==
  \/ AtEnd(p, n)
  \/ n + 1 <= Len(p) /\ p[n] = "." /\ p[n + 1] \in Lower /\ MatchLower(p, n + 2)

RECURSIVE MatchMid(_, _)
\* [/\-_A-Za-z]*(\.[a-z]+)*$ from position n
MatchMid(p, n) ==
  \/ n <= Len(p) /\ p[n] \in MidClass /\ MatchMid(p, n + 1)
  \/ MatchExt(p, n)

\* bool(path_pattern.match(p))
path_pattern_match(p) ==
  Len(p) >= 1 /\ p[1] \in FirstClass /\ MatchMid(p, 2)

HasDot(p) == \E n \in 1..Len(p) : p[n] = "."

\* a slip: the pattern written as ^[.A-Za-z][./\-_A-Za-z]*$, a dot allowed anywhere
is_path_any_dot(p) ==
  /\ HasDot(p) \/ p = LICENSE
  /\ Len(p) >= 1 /\ p[1] \in FirstClass
  /\ \A n \in 2..Len(p) : p[n] \in MidClass \cup {"."}

\* a slip: the LICENSE alternative forgotten
is_path_no_license(p) == HasDot(p) /\ path_pattern_match(p)

\* a slip: the test for a dot forgotten
is_path_pattern_only(p) == path_pattern_match(p)

\* fiction_index.is_path
is_path(p) == (HasDot(p) \/ p = LICENSE) /\ path_pattern_match(p)

\* open-learning-cloud.is_path
is_path_olc(p) == (HasDot(p) \/ p = LICENSE) /\ path_pattern_match(p)

---------------------------------------------------------------------------
(* String constants of the program and of the sample documents *)

markdown == <<"m","a","r","k","d","o","w","n">>

typescript == <<"t","y","p","e","s","c","r","i","p","t">>

python == <<"p","y","t","h","o","n">>

sh == <<"s","h">>

\* the backquote is written "BT": one character of the program's strings
Bt3 == <<"BT","BT","BT">>

Bt4 == <<"BT","BT","BT","BT">>

Tilde3 == <<"~","~","~">>

\* split_pattern: the marker at a line start (re.M)
CommentMarker == <<"/","/"," ">>

SrcAppPy == <<"s","r","c","/","a","p","p",".","p","y">>

DatabaseSchema == <<"D","a","t","a","b","a","s","e"," ","S","c","h","e","m","a">>

ReadmeIntro == <<"R","E","A","D","M","E",".","m","d"," ","i","n","t","r","o">>

ReadmeMd == <<"R","E","A","D","M","E",".","m","d">>

PrintHi == <<"p","r","i","n","t","(","\"","h","i","\"",")","\n">>

Notes == <<"n","o","t","e","s">>

Item == <<"i","t","e","m">>

SrcATs == <<"s","r","c","/","a",".","t","s">>

SrcBTs == <<"s","r","c","/","b",".","t","s">>

ConstA == <<"c","o","n","s","t"," ","a"," ","="," ","1",";","\n">>

ConstB == <<"c","o","n","s","t"," ","b"," ","="," ","2",";","\n">>

TsTwoFiles == <<"/","/"," ","s","r","c","/","a",".","t","s","\n","c","o","n","s","t"," ","a"," ","="," ","1",";","\n","/","/"," ","s","r","c","/","b",".","t","s","\n","c","o","n","s","t"," ","b"," ","="," ","2",";","\n">>

TsPreamble == <<"/","*"," ","a","l","l"," ","*","/","\n","/","/"," ","n","o","t"," ","a"," ","p","a","t","h","\n","x","\n","/","/"," ","s","r","c","/","a","p","p",".","p","y","\n","y","\n">>

TsNoNewline == <<"/","/"," ","s","r","c","/","a",".","t","s","\n","z","\n","/","/"," ","s","r","c","/","b",".","t","s">>

TsDirClash == <<"/","/"," ",".","d","\n","x","\n","/","/"," ",".","d","/","e",".","f","\n","y","\n","/","/"," ",".","/","\n","w","\n">>

TsFileClash == <<"/","/"," ",".","d","/","e",".","f","\n","y","\n","/","/"," ",".","d","\n","x","\n">>

\* two spellings of one file
TsAlias == <<"/","/"," ","s","r","c","/","a",".","t","s","\n","x","\n","/","/"," ","s","r","c","/","/","a",".","t","s","\n","y","\n">>

\* the printable ASCII characters in code-point order, from the space on
Ascii == <<" ","!","\"","#","$","%","&","'","(",")","*","+",",","-",".","/","0","1","2","3","4","5","6","7","8","9",":",";","<","=",">","?","@","A","B","C","D","E","F","G","H","I","J","K","L","M","N","O","P","Q","R","S","T","U","V","W","X","Y","Z","[","\\","]","^","_","BT","a","b","c","d","e","f","g","h","i","j","k","l","m","n","o","p","q","r","s","t","u","v","w","x","y","z","{","|","}","~">>

\* ord(c), up to a constant; the control characters come first
Ord(c) == IF \E n \in 1..Len(Ascii) : Ascii[n] = c
          THEN CHOOSE n \in 1..Len(Ascii) : Ascii[n] = c
          ELSE 0

RECURSIVE StrLess(_, _)
\* a < b on str
StrLess(a, b) ==
  IF b = <<>> THEN FALSE
  ELSE IF a = <<>> THEN TRUE
  ELSE IF a[1] = b[1] THEN StrLess(Tail(a), Tail(b))
  ELSE Ord(a[1]) < Ord(b[1])

RECURSIVE Insert(_, _)
Insert(x, sorted) ==
  IF sorted = <<>> THEN <<x>>
  ELSE IF StrLess(x, sorted[1]) THEN <<x>> \o sorted
  ELSE <<sorted[1]>> \o Insert(x, Tail(sorted))

RECURSIVE Sorted(_)
\* sorted(list): stable, ascending, duplicates kept
Sorted(list) ==
  IF list = <<>> THEN <<>>
  ELSE Insert(list[Len(list)], Sorted(SubSeq(list, 1, Len(list) - 1)))

RECURSIVE Dashes(_)
Dashes(n) == IF n <= 0 THEN <<>> ELSE <<"-">> \o Dashes(n - 1)

SeparatorWidth == 67

---------------------------------------------------------------------------
(* Token streams, as MarkdownIt().parse produces them *)

Tok(type, tag, markup, info, content, level, hidden) ==
  [type |-> type, tag |-> tag, markup |-> markup, info |-> info,
   content |-> content, level |-> level, block |-> TRUE, hidden |-> hidden,
   parsed |-> <<>>]

\* "# text" (markup "#") or "### text" (markup "###")
Heading(tag, markup, text) ==
  << Tok("heading_open", tag, markup, <<>>, <<>>, 0, FALSE),
     Tok("inline", "", <<>>, <<>>, text, 1, FALSE),
     Tok("heading_close", tag, markup, <<>>, <<>>, 0, FALSE) >>

Para(text) ==
  << Tok("paragraph_open", "p", <<>>, <<>>, <<>>, 0, FALSE),
     Tok("inline", "", <<>>, <<>>, text, 1, FALSE),
     Tok("paragraph_close", "p", <<>>, <<>>, <<>>, 0, FALSE) >>

Fence(markup, info, content, level) ==
  << Tok("fence", "code", markup, info, content, level, FALSE) >>

Hr == << Tok("hr", "hr", <<"-","-","-">>, <<>>, <<>>, 0, FALSE) >>

\* "- text": a tight list of one item, its paragraph tokens hidden
BulletList(text) ==
  << Tok("bullet_list_open", "ul", <<"-">>, <<>>, <<>>, 0, FALSE),
     Tok("list_item_open", "li", <<"-">>, <<>>, <<>>, 1, FALSE),
     Tok("paragraph_open", "p", <<>>, <<>>, <<>>, 2, TRUE),
     Tok("inline", "", <<>>, <<>>, text, 3, FALSE),
     Tok("paragraph_close", "p", <<>>, <<>>, <<>>, 2, TRUE),
     Tok("list_item_close", "li", <<"-">>, <<>>, <<>>, 1, FALSE),
     Tok("bullet_list_close", "ul", <<"-">>, <<>>, <<>>, 0, FALSE) >>

\* a list item that holds a fence, at level 2
FenceList(info, content) ==
  << Tok("bullet_list_open", "ul", <<"-">>, <<>>, <<>>, 0, FALSE),
     Tok("list_item_open", "li", <<"-">>, <<>>, <<>>, 1, FALSE),
     Tok("fence", "code", Bt3, info, content, 2, FALSE),
     Tok("list_item_close", "li", <<"-">>, <<>>, <<>>, 1, FALSE),
     Tok("bullet_list_close", "ul", <<"-">>, <<>>, <<>>, 0, FALSE) >>

\* type.endswith('_open')
OpenTypes == {"heading_open", "paragraph_open", "bullet_list_open", "ordered_list_open",
              "list_item_open", "blockquote_open"}

\* type.endswith('close')
CloseTypes == {"heading_close", "paragraph_close", "bullet_list_close",
               "ordered_list_close", "list_item_close", "blockquote_close"}

\* the blocks a re-parsed wrapper is made of
Blocks ==
  { Heading("h1", <<"#">>, SrcAppPy),
    Heading("h1", <<"#">>, ReadmeIntro),
    Heading("h1", <<"#">>, DatabaseSchema),
    Heading("h1", <<"#">>, <<>>),
    Heading("h3", <<"#","#","#">>, SrcAppPy),
    Heading("h3", <<"#","#","#">>, Notes),
    Fence(Bt3, python, PrintHi, 0),
    Fence(Tilde3, sh, PrintHi, 0),
    Fence(Bt3, <<>>, ConstA, 0),
    Para(ReadmeMd),
    Hr,
    BulletList(Item),
    FenceList(python, PrintHi) }

MaxBlocks == 3

RECURSIVE Streams(_)
\* the token streams of at most n blocks
Streams(n) ==
  IF n = 0 THEN {<<>>}
  ELSE LET S == Streams(n - 1)
       IN S \cup {s \o b : s \in S, b \in Blocks}

\* a top-level ````markdown fence whose content parses to sub
Wrapper(sub) ==
  [Tok("fence", "code", Bt4, markdown, <<>>, 0, FALSE) EXCEPT !.parsed = sub]

TsContents == {TsTwoFiles, TsPreamble, TsNoNewline, TsDirClash, TsFileClash, TsAlias}

\* "### src/app.py" and a list item that holds its fence
H3Fenced == Heading("h3", <<"#","#","#">>, SrcAppPy) \o FenceList(python, PrintHi)

\* documents: one wrapper of up to MaxBlocks blocks; or prose, two small wrappers
\* and a mega-block, in this order; or a payload-length typescript fence
Docs ==
  { <<Wrapper(s)>> : s \in Streams(MaxBlocks) }
    \cup { Para(Notes) \o <<Wrapper(a), Wrapper(b)>> \o Fence(Bt4, typescript, c, 0) :
             a \in Streams(1) \cup {H3Fenced}, b \in Streams(1), c \in TsContents }
    \cup { Fence(Bt3, typescript, TsTwoFiles, 0) }

---------------------------------------------------------------------------
(* The file system and write_file *)

\* the components of a relative path that name something: "" and "." do not
Resolve(parts) == SelectSeq(parts, LAMBDA c : c # <<>> /\ c # <<".">>)

Prefixes(rd) == {SubSeq(rd, 1, n) : n \in 1..Len(rd)}

\* os.makedirs(dirs, exist_ok=True) then open(path, 'w') and write, on file system f.
\* makedirs fails on a component that is a file; open fails on a directory.
WriteFileOn(f, p, c) ==
  LET parts   == SplitOn(p, "/")
      dirs    == Join(SubSeq(parts, 1, Len(parts) - 1), <<"/">>)
      rd      == Resolve(SplitOn(dirs, "/"))
      isFile(d) == d \in DOMAIN f.files
      mkfail  == dirs # <<>> /\ \E d \in Prefixes(rd) : isFile(d)
      before  == {d \in Prefixes(rd) : \A e \in Prefixes(d) : ~isFile(e)}
      made    == IF dirs # <<>> THEN f.dirs \cup before ELSE f.dirs
      last    == parts[Len(parts)]
      rp      == Resolve(parts)
  IN IF mkfail
     THEN [ok |-> FALSE, exc |-> "FileExistsError", fs |-> [f EXCEPT !.dirs = made]]
     ELSE IF last \in {<<>>, <<".">>} \/ rp \in made
     THEN [ok |-> FALSE, exc |-> "IsADirectoryError", fs |-> [f EXCEPT !.dirs = made]]
     ELSE [ok |-> TRUE, exc |-> "none",
           fs |-> [files |-> [x \in DOMAIN f.files \cup {rp} |->
                                IF x = rp THEN c ELSE f.files[x]],
                   dirs |-> made]]

\* a slip: the file opened for appending instead of writing
write_file_append(f, p, c) ==
  LET w  == WriteFileOn(f, p, c)
      rp == Resolve(SplitOn(p, "/"))
  IN IF w.ok /\ rp \in DOMAIN f.files
     THEN [w EXCEPT !.fs.files[rp] = f.files[rp] \o c]
     ELSE w

\* a slip: the file opened with mode 'x', which refuses a file that exists
write_file_exclusive(f, p, c) ==
  LET w == WriteFileOn(f, p, c)
  IN IF w.ok /\ Resolve(SplitOn(p, "/")) \in DOMAIN f.files
     THEN [ok |-> FALSE, exc |-> "FileExistsError", fs |-> f]
     ELSE w

\* fiction_index.write_file
write_file(f, p, c) == WriteFileOn(f, p, c)

\* open-learning-cloud.write_file
write_file_olc(f, p, c) == WriteFileOn(f, p, c)

\* what a call can come to: the result on f, or a failure of the environment
\* (no space, no permission) that leaves f as it was
WriteOutcomes(w, f) == {w, [ok |-> FALSE, exc |-> "OSError", fs |-> f]}

NoWrite(f) == [ok |-> TRUE, exc |-> "none", fs |-> f]

Unit(p, c, by, at) == [path |-> p, content |-> c, by |-> by, k |-> k, marker |-> at]

---------------------------------------------------------------------------
(* Helpers of the strategies *)

\* a slip: the test of the token type and of the delimiter forgotten
is_fence_code_block_untyped(t, markup, info) ==
  IF info # None /\ t.info # info THEN FALSE ELSE TRUE

\* fiction_index.is_fence_code_block; info = None stands for the default
is_fence_code_block(t, markup, info) ==
  IF info # None /\ t.info # info THEN FALSE
  ELSE /\ t.type = "fence"
       /\ t.tag = "code"
       /\ t.block
       /\ t.markup = markup
       /\ ~t.hidden

\* '\n'.join(content_lines).strip() + '\n'
Flush(lines) == Strip(Join(lines, <<"\n">>)) \o <<"\n">>

\* the lines a fence token adds to content_lines
FenceLines(t) ==
  LET indent == Spaces(t.level * 2)
      body   == SplitLines(t.content)
  IN <<indent \o t.markup \o t.info>>
       \o [n \in 1..Len(body) |-> indent \o body[n]]
       \o <<indent \o t.markup>>

\* the places where split_pattern matches in s
MarkerAt(s, n) ==
  /\ n + 2 <= Len(s)
  /\ n = 1 \/ s[n - 1] = "\n"
  /\ SubSeq(s, n, n + 2) = CommentMarker

RECURSIVE SplitFrom(_, _)
\* split_pattern.split(s), for the part of s from position from on
SplitFrom(s, from) ==
  IF \E n \in from..Len(s) : MarkerAt(s, n)
  THEN LET n == CHOOSE n \in from..Len(s) :
                  MarkerAt(s, n) /\ \A m \in from..(n - 1) : ~MarkerAt(s, m)
       IN <<SubSeq(s, from, n - 1)>> \o SplitFrom(s, n + 3)
  ELSE <<SubSeq(s, from, Len(s))>>

\* split_pattern.split(t.content)[1:]
Chunks(content) == Tail(SplitFrom(content, 1))

\* chunk.split('\n', 1)
SplitFirstLine(chunk) ==
  IF \E n \in 1..Len(chunk) : chunk[n] = "\n"
  THEN LET n == CHOOSE n \in 1..Len(chunk) :
                  chunk[n] = "\n" /\ \A m \in 1..(n - 1) : chunk[m] # "\n"
       IN <<SubSeq(chunk, 1, n - 1), SubSeq(chunk, n + 1, Len(chunk))>>
  ELSE <<chunk>>

---------------------------------------------------------------------------
(* Driver for the Path Recognizer alone: SpecPath *)

MaxPathLen == 4

PathAlphabet == {"a", "Z", ".", "/", "-", "_", " ", "1"}

RECURSIVE StringsUpTo(_, _)
StringsUpTo(A, n) ==
  IF n = 0 THEN {<<>>}
  ELSE LET S == StringsUpTo(A, n - 1)
       IN S \cup {Append(s, c) : s \in {x \in S : Len(x) = n - 1}, c \in A}

SrcDbSchemaTs == <<"s","r","c","/","d","b","/","s","c","h","e","m","a",".","t","s">>

Gitignore == <<".","g","i","t","i","g","n","o","r","e">>

EnvExample == <<".","e","n","v",".","e","x","a","m","p","l","e">>

Candidates ==
  StringsUpTo(PathAlphabet, MaxPathLen)
    \cup {SrcDbSchemaTs, Gitignore, EnvExample}
    \cup {LICENSE,
          <<"L","I","C","E","N","S">>,
          <<"L","I","C","E","N","S","E","S">>,
          <<"l","i","c","e","n","s","e">>,
          <<"L","I","C","E","N","S","E",".">>,
          <<"L","I","C","E","N","S","E"," ">>}

Idle ==
  /\ tool = None /\ doc = <<>> /\ pc = "idle" /\ k = 0 /\ tokens = <<>> /\ i = 0
  /\ path = None /\ skip = FALSE /\ content_prefix = <<>> /\ h1_is_content = FALSE
  /\ content_lines = <<>> /\ chunks = <<>> /\ paths = <<>>
  /\ fs = [files |-> <<>>, dirs |-> {}] /\ units = <<>> /\ marker = 0
  /\ out = <<>> /\ err = "none"
  /\ run = 1 /\ first = None
  /\ code_blocks = <<>> /\ responses = <<>> /\ filepath = None /\ counter = 0
  /\ executable = {}

InitPath ==
  /\ cand \in Candidates
  /\ verdict = None
  /\ Idle

CheckPath ==
  /\ pc = "idle"
  /\ verdict = None
  /\ verdict' = <<is_path(cand), is_path_olc(cand)>>
  /\ UNCHANGED <<cand, tool, doc, pc, k, tokens, i, path, skip, content_prefix,
                 h1_is_content, content_lines, chunks, paths, fs, units, marker, out, err,
                 run, first, code_blocks, responses, filepath, counter, executable>>

NextPath == CheckPath

SpecPath == InitPath /\ [][NextPath]_vars

---------------------------------------------------------------------------
(* The drivers: main() of fiction_index.py and of open-learning-cloud.py *)

Init ==
  /\ cand = <<>> /\ verdict = None
  /\ tool \in {"fiction_index", "open_learning_cloud"}
  /\ doc \in Docs
  /\ pc = IF tool = "fiction_index" THEN "pass_01" ELSE "olc_pass_01"
  /\ k = 1 /\ tokens = <<>> /\ i = 0
  /\ path = None /\ skip = FALSE /\ content_prefix = <<>> /\ h1_is_content = FALSE
  /\ content_lines = <<>> /\ chunks = <<>> /\ paths = <<>>
  /\ fs = [files |-> <<>>, dirs |-> {}] /\ units = <<>> /\ marker = 0
  /\ out = <<>> /\ err = "none"
  /\ run = 1 /\ first = None
  /\ code_blocks = <<>> /\ responses = <<>> /\ filepath = None /\ counter = 0
  /\ executable = {}

exportLocals == <<code_blocks, responses, filepath, counter, executable>>

fixed == <<cand, verdict, tool, doc, run, first, exportLocals>>

h1Locals == <<content_prefix, h1_is_content, content_lines>>

\* a slip: the exception caught and logged, the loop going on with the same token
RaiseSwallowed(e) ==
  /\ pc' = pc
  /\ err' = e
  /\ UNCHANGED <<k, tokens, i, path, skip, h1Locals, chunks, marker, out>>

\* an exception leaves the strategy and the driver: nothing runs after it
Raise(e) ==
  /\ pc' = "raised"
  /\ err' = e
  /\ UNCHANGED <<k, tokens, i, path, skip, h1Locals, chunks, marker, out>>

\* write_file(p, c); paths.append(p), as seen by the history
Emitted(w, p, c, by, at) ==
  /\ fs' = w.fs
  /\ units' = IF w.ok THEN Append(units, Unit(p, c, by, at)) ELSE units
  /\ paths' = IF w.ok THEN Append(paths, p) ELSE paths

---------------------------------------------------------------------------
(* fiction_index.pass_01 *)

Pass01Skip ==
  /\ pc = "pass_01" /\ k <= Len(doc)
  /\ ~is_fence_code_block(doc[k], Bt4, markdown)
  /\ k' = k + 1
  /\ UNCHANGED <<fixed, pc, tokens, i, path, skip, h1Locals, chunks, paths, fs, units,
                 marker, out, err>>

\* tokens = md.parse(t.content), then pass_01_fence_md_h1(tokens) is entered
Pass01Wrapper ==
  /\ pc = "pass_01" /\ k <= Len(doc)
  /\ is_fence_code_block(doc[k], Bt4, markdown)
  /\ tokens' = doc[k].parsed
  /\ pc' = "h1" /\ i' = 1
  /\ path' = None /\ skip' = FALSE /\ content_prefix' = <<>>
  /\ h1_is_content' = FALSE /\ content_lines' = <<>> /\ marker' = 0
  /\ UNCHANGED <<fixed, k, chunks, paths, fs, units, out, err>>

\* a slip: paths.extend(pass_02(tokens)) forgotten in main
Pass01ReturnToReport ==
  /\ pc = "pass_01" /\ k > Len(doc)
  /\ pc' = "report"
  /\ UNCHANGED <<fixed, k, tokens, i, path, skip, h1Locals, chunks, paths, fs, units,
                 marker, out, err>>

Pass01Return ==
  /\ pc = "pass_01" /\ k > Len(doc)
  /\ pc' = "pass_02" /\ k' = 1
  /\ UNCHANGED <<fixed, tokens, i, path, skip, h1Locals, chunks, paths, fs, units,
                 marker, out, err>>

---------------------------------------------------------------------------
(* fiction_index.pass_01_fence_md_h1: one action per branch of the loop body *)

H1At == pc = "h1" /\ i < Len(tokens)

H1Heading == tokens[i].type = "heading_open" /\ tokens[i].tag = "h1"

H1Step == i' = i + 1 /\ UNCHANGED <<fixed, pc, k, tokens, chunks, out, err>>

\* a slip: skip = False forgotten before the continue
H1SkipStays ==
  /\ H1At /\ skip
  /\ H1Step
  /\ UNCHANGED <<path, skip, h1Locals, paths, fs, units, marker>>

H1Skip ==
  /\ H1At /\ skip
  /\ skip' = FALSE
  /\ H1Step
  /\ UNCHANGED <<path, h1Locals, paths, fs, units, marker>>

\* a slip: the heading taken as content without its markup
H1HeadingContentNoPrefix ==
  /\ H1At /\ ~skip /\ H1Heading /\ h1_is_content
  /\ H1Step
  /\ UNCHANGED <<path, skip, h1Locals, paths, fs, units, marker>>

H1HeadingContent ==
  /\ H1At /\ ~skip /\ H1Heading /\ h1_is_content
  /\ content_prefix' = <<"#", " ">>
  /\ H1Step
  /\ UNCHANGED <<path, skip, h1_is_content, content_lines, paths, fs, units, marker>>

\* a slip: content_lines = [] forgotten when the marker heading is processed
H1HeadingMarkerKeepsLines ==
  /\ H1At /\ ~skip /\ H1Heading /\ ~h1_is_content
  /\ LET words == SplitWords(tokens[i + 1].content)
     IN \E w \in (IF path # None
                  THEN WriteOutcomes(write_file(fs, path, Flush(content_lines)), fs)
                  ELSE {NoWrite(fs)}) :
          /\ IF path # None
             THEN Emitted(w, path, Flush(content_lines), "h1", marker)
             ELSE UNCHANGED <<fs, units, paths>>
          /\ IF ~w.ok THEN Raise(w.exc)
             ELSE IF words = <<>> THEN Raise("IndexError")
             ELSE /\ skip' = TRUE
                  /\ content_lines' = content_lines
                  /\ IF is_path(words[1])
                     THEN path' = words[1] /\ h1_is_content' = TRUE /\ marker' = i
                     ELSE path' = None /\ h1_is_content' = h1_is_content /\ marker' = 0
                  /\ i' = i + 1
                  /\ UNCHANGED <<pc, k, tokens, content_prefix, chunks, out, err>>
  /\ UNCHANGED fixed

H1HeadingMarker ==
  /\ H1At /\ ~skip /\ H1Heading /\ ~h1_is_content
  /\ LET words == SplitWords(tokens[i + 1].content)
     IN \E w \in (IF path # None
                  THEN WriteOutcomes(write_file(fs, path, Flush(content_lines)), fs)
                  ELSE {NoWrite(fs)}) :
          /\ IF path # None
             THEN Emitted(w, path, Flush(content_lines), "h1", marker)
             ELSE UNCHANGED <<fs, units, paths>>
          /\ IF ~w.ok THEN Raise(w.exc)
             ELSE IF words = <<>> THEN Raise("IndexError")
             ELSE /\ skip' = TRUE
                  /\ content_lines' = <<>>
                  /\ IF is_path(words[1])
                     THEN path' = words[1] /\ h1_is_content' = TRUE /\ marker' = i
                     ELSE path' = None /\ h1_is_content' = h1_is_content /\ marker' = 0
                  /\ i' = i + 1
                  /\ UNCHANGED <<pc, k, tokens, content_prefix, chunks, out, err>>
  /\ UNCHANGED fixed

H1NoPath ==
  /\ H1At /\ ~skip /\ ~H1Heading /\ path = None
  /\ H1Step
  /\ UNCHANGED <<path, skip, h1Locals, paths, fs, units, marker>>

\* the second chain of the loop body is reached with a pending path only
H1Body == H1At /\ ~skip /\ ~H1Heading /\ path # None

\* a slip: the rule passed over, the flag left as it is
H1HrKeepsFlag ==
  /\ H1Body /\ tokens[i].type = "hr"
  /\ H1Step
  /\ UNCHANGED <<path, skip, h1Locals, paths, fs, units, marker>>

H1Hr ==
  /\ H1Body /\ tokens[i].type = "hr"
  /\ h1_is_content' = FALSE
  /\ H1Step
  /\ UNCHANGED <<path, skip, content_prefix, content_lines, paths, fs, units, marker>>

H1Open ==
  /\ H1Body /\ tokens[i].type \in OpenTypes /\ tokens[i].type # "paragraph_open"
  /\ content_prefix' = tokens[i].markup \o <<" ">>
  /\ H1Step
  /\ UNCHANGED <<path, skip, h1_is_content, content_lines, paths, fs, units, marker>>

\* a slip: content_prefix = '' forgotten after the line is appended
H1InlineKeepsPrefix ==
  /\ H1Body /\ tokens[i].type = "inline"
  /\ content_lines' = Append(content_lines, content_prefix \o tokens[i].content)
  /\ H1Step
  /\ UNCHANGED <<path, skip, content_prefix, h1_is_content, paths, fs, units, marker>>

H1Inline ==
  /\ H1Body /\ tokens[i].type = "inline"
  /\ content_lines' = Append(content_lines, content_prefix \o tokens[i].content)
  /\ content_prefix' = <<>>
  /\ H1Step
  /\ UNCHANGED <<path, skip, h1_is_content, paths, fs, units, marker>>

H1Fence ==
  /\ H1Body /\ tokens[i].type = "fence"
  /\ h1_is_content' = FALSE
  /\ content_lines' = content_lines \o FenceLines(tokens[i])
  /\ content_prefix' = <<>>
  /\ H1Step
  /\ UNCHANGED <<path, skip, paths, fs, units, marker>>

H1HeadingClose ==
  /\ H1Body /\ tokens[i].type = "heading_close"
  /\ content_lines' = Append(content_lines, <<>>)
  /\ H1Step
  /\ UNCHANGED <<path, skip, content_prefix, h1_is_content, paths, fs, units, marker>>

\* a slip: the test for a following fence forgotten
H1ParagraphCloseCondNoFence ==
  /\ tokens[i].type = "paragraph_close"
  /\ tokens[i + 1].type \notin CloseTypes

H1ParagraphCloseCond ==
  /\ tokens[i].type = "paragraph_close"
  /\ tokens[i + 1].type \notin CloseTypes
  /\ tokens[i + 1].type # "fence"

H1ParagraphClose ==
  /\ H1Body /\ H1ParagraphCloseCond
  /\ content_lines' = Append(content_lines, <<>>)
  /\ H1Step
  /\ UNCHANGED <<path, skip, content_prefix, h1_is_content, paths, fs, units, marker>>

H1ListItemCloseCond ==
  /\ tokens[i].type = "list_item_close"
  /\ tokens[i + 1].type \in {"heading_open", "bullet_list_close", "ordered_list_close"}

H1ListItemClose ==
  /\ H1Body /\ H1ListItemCloseCond
  /\ content_lines' = Append(content_lines, <<>>)
  /\ H1Step
  /\ UNCHANGED <<path, skip, content_prefix, h1_is_content, paths, fs, units, marker>>

\* no branch applies: the token leaves no trace
H1Other ==
  /\ H1Body
  /\ tokens[i].type \notin {"hr", "inline", "fence", "heading_close"}
  /\ ~(tokens[i].type \in OpenTypes /\ tokens[i].type # "paragraph_open")
  /\ ~H1ParagraphCloseCond
  /\ ~H1ListItemCloseCond
  /\ H1Step
  /\ UNCHANGED <<path, skip, h1Locals, paths, fs, units, marker>>

\* after the loop: the pending unit is written, the paths returned, and pass_01
\* enters pass_01_fence_md_h3 on the same tokens
H1Return ==
  /\ pc = "h1" /\ i >= Len(tokens)
  /\ \E w \in (IF path # None
               THEN WriteOutcomes(write_file(fs, path, Flush(content_lines)), fs)
               ELSE {NoWrite(fs)}) :
       /\ IF path # None
          THEN Emitted(w, path, Flush(content_lines), "h1", marker)
          ELSE UNCHANGED <<fs, units, paths>>
       /\ IF ~w.ok THEN Raise(w.exc)
          ELSE /\ pc' = "h3" /\ i' = 1
               /\ path' = None /\ skip' = FALSE /\ marker' = 0
               /\ UNCHANGED <<k, tokens, h1Locals, chunks, out, err>>
  /\ UNCHANGED fixed

---------------------------------------------------------------------------
(* fiction_index.pass_01_fence_md_h3 *)

H3At == pc = "h3" /\ i < Len(tokens)

H3Heading == tokens[i].type = "heading_open" /\ tokens[i].tag = "h3"

H3Step == i' = i + 1 /\ UNCHANGED <<fixed, pc, k, tokens, h1Locals, chunks, out, err>>

H3Skip ==
  /\ H3At /\ skip
  /\ skip' = FALSE
  /\ H3Step
  /\ UNCHANGED <<path, paths, fs, units, marker>>

H3HeadingOpen ==
  /\ H3At /\ ~skip /\ H3Heading
  /\ IF is_path(tokens[i + 1].content)
     THEN skip' = TRUE /\ path' = tokens[i + 1].content /\ marker' = i
     ELSE UNCHANGED <<skip, path, marker>>
  /\ H3Step
  /\ UNCHANGED <<paths, fs, units>>

H3Fence ==
  /\ H3At /\ ~skip /\ ~H3Heading
  /\ path # None /\ is_fence_code_block(tokens[i], Bt3, None)
  /\ \E w \in WriteOutcomes(write_file(fs, path, tokens[i].content), fs) :
       /\ Emitted(w, path, tokens[i].content, "h3", marker)
       /\ IF ~w.ok THEN Raise(w.exc)
          ELSE /\ path' = None /\ marker' = 0
               /\ i' = i + 1
               /\ UNCHANGED <<pc, k, tokens, skip, h1Locals, chunks, out, err>>
  /\ UNCHANGED fixed

H3Other ==
  /\ H3At /\ ~skip /\ ~H3Heading
  /\ ~(path # None /\ is_fence_code_block(tokens[i], Bt3, None))
  /\ H3Step
  /\ UNCHANGED <<path, skip, paths, fs, units, marker>>

\* the paths are returned and pass_01 goes on with its next token
H3Return ==
  /\ pc = "h3" /\ i >= Len(tokens)
  /\ pc' = "pass_01" /\ k' = k + 1
  /\ UNCHANGED <<fixed, tokens, i, path, skip, h1Locals, chunks, paths, fs, units,
                 marker, out, err>>

---------------------------------------------------------------------------
(* fiction_index.pass_02 and pass_02_fence_ts *)

Pass02Skip ==
  /\ pc = "pass_02" /\ k <= Len(doc)
  /\ ~is_fence_code_block(doc[k], Bt4, typescript)
  /\ k' = k + 1
  /\ UNCHANGED <<fixed, pc, tokens, i, path, skip, h1Locals, chunks, paths, fs, units,
                 marker, out, err>>

Pass02Fence ==
  /\ pc = "pass_02" /\ k <= Len(doc)
  /\ is_fence_code_block(doc[k], Bt4, typescript)
  /\ chunks' = Chunks(doc[k].content)
  /\ pc' = "ts" /\ i' = 1
  /\ UNCHANGED <<fixed, k, tokens, path, skip, h1Locals, paths, fs, units, marker, out, err>>

Pass02Return ==
  /\ pc = "pass_02" /\ k > Len(doc)
  /\ pc' = "report"
  /\ UNCHANGED <<fixed, k, tokens, i, path, skip, h1Locals, chunks, paths, fs, units,
                 marker, out, err>>

\* one chunk: path, content = chunk.split('\n', 1), written if path is a path
TsChunk ==
  /\ pc = "ts" /\ chunks # <<>>
  /\ LET pair == SplitFirstLine(Head(chunks))
     IN IF Len(pair) # 2
        THEN Raise("ValueError") /\ UNCHANGED <<paths, fs, units>>
        ELSE IF is_path(pair[1])
        THEN \E w \in WriteOutcomes(write_file(fs, pair[1], pair[2]), fs) :
               /\ Emitted(w, pair[1], pair[2], "ts", i)
               /\ IF ~w.ok THEN Raise(w.exc)
                  ELSE /\ chunks' = Tail(chunks) /\ i' = i + 1
                       /\ UNCHANGED <<pc, k, tokens, path, skip, h1Locals, marker, out, err>>
        ELSE /\ chunks' = Tail(chunks) /\ i' = i + 1
             /\ UNCHANGED <<pc, k, tokens, path, skip, h1Locals, marker, out, err,
                            paths, fs, units>>
  /\ UNCHANGED fixed

TsReturn ==
  /\ pc = "ts" /\ chunks = <<>>
  /\ pc' = "pass_02" /\ k' = k + 1
  /\ UNCHANGED <<fixed, tokens, i, path, skip, h1Locals, chunks, paths, fs, units,
                 marker, out, err>>

---------------------------------------------------------------------------
(* The report of main *)

\* a slip: the paths reported in the order they were written
ReportUnsorted(ps) == <<Dashes(SeparatorWidth)>> \o ps

\* print('-' * 67), then print(path) for path in sorted(paths)
Report(ps) == <<Dashes(SeparatorWidth)>> \o Sorted(ps)

\* fiction_index.main, after the passes
MainPrint ==
  /\ pc = "report" /\ tool = "fiction_index"
  /\ out' = Report(paths)
  /\ pc' = "done"
  /\ UNCHANGED <<fixed, k, tokens, i, path, skip, h1Locals, chunks, paths, fs, units,
                 marker, err>>

\* open-learning-cloud.main, after pass_01
OlcMainPrint ==
  /\ pc = "report" /\ tool = "open_learning_cloud"
  /\ out' = Report(paths)
  /\ pc' = "done"
  /\ UNCHANGED <<fixed, k, tokens, i, path, skip, h1Locals, chunks, paths, fs, units,
                 marker, err>>

---------------------------------------------------------------------------
(* open-learning-cloud.pass_01 and pass_01_a *)

OlcWrapper(t) == t.type = "fence" /\ t.info = markdown /\ t.markup = Bt4

OlcPass01Skip ==
  /\ pc = "olc_pass_01" /\ k <= Len(doc)
  /\ ~OlcWrapper(doc[k])
  /\ k' = k + 1
  /\ UNCHANGED <<fixed, pc, tokens, i, path, skip, h1Locals, chunks, paths, fs, units,
                 marker, out, err>>

OlcPass01Wrapper ==
  /\ pc = "olc_pass_01" /\ k <= Len(doc)
  /\ OlcWrapper(doc[k])
  /\ tokens' = doc[k].parsed
  /\ pc' = "a" /\ i' = 1
  /\ UNCHANGED <<fixed, k, path, skip, h1Locals, chunks, paths, fs, units, marker, out, err>>

OlcPass01Return ==
  /\ pc = "olc_pass_01" /\ k > Len(doc)
  /\ pc' = "report"
  /\ UNCHANGED <<fixed, k, tokens, i, path, skip, h1Locals, chunks, paths, fs, units,
                 marker, out, err>>

\* the loop is over zip(tokens, tokens[1:], tokens[2:]): t2 = tokens[i], t = tokens[i + 2]
AAt == pc = "a" /\ i + 2 <= Len(tokens)

ANamedFence ==
  /\ tokens[i + 2].type = "fence"
  /\ tokens[i + 2].info \notin {markdown, <<>>}

AFence ==
  /\ AAt /\ ANamedFence
  /\ IF tokens[i + 2].markup # Bt3
     THEN Raise("AssertionError") /\ UNCHANGED <<paths, fs, units>>
     ELSE IF tokens[i].type = "inline" /\ is_path_olc(tokens[i].content)
     THEN \E w \in WriteOutcomes(
                      write_file_olc(fs, tokens[i].content, tokens[i + 2].content), fs) :
            /\ Emitted(w, tokens[i].content, tokens[i + 2].content, "a", i)
            /\ IF ~w.ok THEN Raise(w.exc)
               ELSE /\ i' = i + 1
                    /\ UNCHANGED <<pc, k, tokens, path, skip, h1Locals, chunks, marker,
                                   out, err>>
     ELSE /\ i' = i + 1
          /\ UNCHANGED <<pc, k, tokens, path, skip, h1Locals, chunks, marker, out, err,
                         paths, fs, units>>
  /\ UNCHANGED fixed

AOther ==
  /\ AAt /\ ~ANamedFence
  /\ i' = i + 1
  /\ UNCHANGED <<fixed, pc, k, tokens, path, skip, h1Locals, chunks, paths, fs, units,
                 marker, out, err>>

AReturn ==
  /\ pc = "a" /\ i + 2 > Len(tokens)
  /\ pc' = "olc_pass_01" /\ k' = k + 1
  /\ UNCHANGED <<fixed, tokens, i, path, skip, h1Locals, chunks, paths, fs, units,
                 marker, out, err>>

---------------------------------------------------------------------------

Next ==
  \/ Pass01Skip \/ Pass01Wrapper \/ Pass01Return
  \/ H1Skip \/ H1HeadingContent \/ H1HeadingMarker \/ H1NoPath
  \/ H1Hr \/ H1Open \/ H1Inline \/ H1Fence \/ H1HeadingClose
  \/ H1ParagraphClose \/ H1ListItemClose \/ H1Other \/ H1Return
  \/ H3Skip \/ H3HeadingOpen \/ H3Fence \/ H3Other \/ H3Return
  \/ Pass02Skip \/ Pass02Fence \/ Pass02Return \/ TsChunk \/ TsReturn
  \/ MainPrint
  \/ OlcPass01Skip \/ OlcPass01Wrapper \/ OlcPass01Return
  \/ AFence \/ AOther \/ AReturn
  \/ OlcMainPrint

Spec == Init /\ [][Next]_vars

---------------------------------------------------------------------------
(* The script run a second time on the same document, in the directory the first
   run has left *)

\* the process has ended, by the report or by an exception; main() is entered anew:
\* every variable of the program starts over, the file system stays
Rerun ==
  /\ pc \in {"done", "raised"} /\ run = 1
  /\ run' = 2
  /\ first' = [units |-> units, fs |-> fs, out |-> out, err |-> err]
  /\ pc' = IF tool = "fiction_index" THEN "pass_01" ELSE "olc_pass_01"
  /\ k' = 1 /\ tokens' = <<>> /\ i' = 0
  /\ path' = None /\ skip' = FALSE /\ content_prefix' = <<>> /\ h1_is_content' = FALSE
  /\ content_lines' = <<>> /\ chunks' = <<>> /\ paths' = <<>>
  /\ units' = <<>> /\ marker' = 0
  /\ out' = <<>> /\ err' = "none"
  /\ UNCHANGED <<cand, verdict, tool, doc, fs, exportLocals>>

NextTwice == Next \/ Rerun

SpecTwice == Init /\ [][NextTwice]_vars

---------------------------------------------------------------------------
(* src/claude_export_parser.py: ConversationParser.export_scripts and export_docs *)

Digits == <<"0","1","2","3","4","5","6","7","8","9">>

RECURSIVE IntToStr(_)
\* str(n) for n >= 0
IntToStr(n) ==
  IF n < 10 THEN <<Digits[n + 1]>>
  ELSE IntToStr(n \div 10) \o <<Digits[(n % 10) + 1]>>

\* the index of the last c in s, or 0
RFind(s, c) ==
  IF \E n \in 1..Len(s) : s[n] = c
  THEN CHOOSE n \in 1..Len(s) : s[n] = c /\ \A m \in (n + 1)..Len(s) : s[m] # c
  ELSE 0

\* PurePath.name: the last component of a relative path
PathName(p) ==
  LET parts == Resolve(SplitOn(p, "/"))
  IN IF parts = <<>> THEN <<>> ELSE parts[Len(parts)]

\* PurePath.suffix: from the last dot on, unless the dot is first or last in the name
PathSuffix(p) ==
  LET name == PathName(p)
      d    == RFind(name, ".")
  IN IF 1 < d /\ d < Len(name) THEN SubSeq(name, d, Len(name)) ELSE <<>>

\* PurePath.stem
PathStem(p) ==
  LET name == PathName(p)
      d    == RFind(name, ".")
  IN IF 1 < d /\ d < Len(name) THEN SubSeq(name, 1, d - 1) ELSE name

bash == <<"b","a","s","h">>

text == <<"t","e","x","t">>

\* ext_map.get(language.lower(), 'txt'), for the languages of the sample blocks
get_extension(language) ==
  IF language = python THEN <<"p","y">>
  ELSE IF language = bash THEN <<"s","h">>
  ELSE IF language = typescript THEN <<"t","s">>
  ELSE IF language = markdown THEN <<"m","d">>
  ELSE <<"t","x","t">>

\* \w
WordChars == Upper \cup Lower \cup {"0","1","2","3","4","5","6","7","8","9","_"}

\* str.lower() on one character
LowerChar(c) == IF c \in Upper THEN Ascii[Ord(c) + 32] ELSE c

RECURSIVE SquashToHyphen(_)
\* re.sub(r'[\s_]+', '-', text)
SquashToHyphen(s) ==
  IF s = <<>> THEN <<>>
  ELSE IF s[1] \in Whitespace \cup {"_"}
  THEN IF Len(s) >= 2 /\ s[2] \in Whitespace \cup {"_"}
       THEN SquashToHyphen(Tail(s))
       ELSE <<"-">> \o SquashToHyphen(Tail(s))
  ELSE <<s[1]>> \o SquashToHyphen(Tail(s))

RECURSIVE StripHyphens(_)
\* str.strip('-')
StripHyphens(s) ==
  IF s # <<>> /\ s[1] = "-" THEN StripHyphens(Tail(s))
  ELSE IF s # <<>> /\ s[Len(s)] = "-" THEN StripHyphens(SubSeq(s, 1, Len(s) - 1))
  ELSE s

\* ConversationParser._to_kebab_case
to_kebab_case(s) ==
  LET kept    == SelectSeq(s, LAMBDA c : c \in WordChars \cup Whitespace \cup {"-"})
      hyphens == SquashToHyphen(kept)
      lower   == [n \in 1..Len(hyphens) |-> LowerChar(hyphens[n])]
  IN StripHyphens(lower)

\* the end of the line that holds position q: the last index before a line break
LineEnd(s, q) ==
  IF \E e \in q..Len(s) : s[e] = "\n"
  THEN (CHOOSE e \in q..Len(s) : s[e] = "\n" /\ \A j \in q..(e - 1) : s[j] # "\n") - 1
  ELSE Len(s)

\* TITLE_PATTERN ^#\s+(.+)$ (re.M) matches at the line start n: the positions q where
\* the group can start, after one whitespace character or more
TitleStarts(s, n) ==
  IF (n = 1 \/ s[n - 1] = "\n") /\ s[n] = "#"
  THEN {q \in (n + 2)..Len(s) :
          /\ \A j \in (n + 1)..(q - 1) : s[j] \in Whitespace
          /\ s[q] # "\n"}
  ELSE {}

\* TITLE_PATTERN.search(s): group(1) of the first match, or None; \s+ is greedy
TitleMatch(s) ==
  IF \E n \in 1..Len(s) : TitleStarts(s, n) # {}
  THEN LET n == CHOOSE n \in 1..Len(s) :
                  TitleStarts(s, n) # {} /\ \A m \in 1..(n - 1) : TitleStarts(s, m) = {}
           q == CHOOSE q \in TitleStarts(s, n) : \A r \in TitleStarts(s, n) : r <= q
       IN SubSeq(s, q, LineEnd(s, q))
  ELSE None

\* main: output_dir / 'scripts' and output_dir / 'docs', below the working directory
scripts_dir == <<"s","c","r","i","p","t","s">>

docs_dir == <<"d","o","c","s">>

\* Path.__truediv__ with a relative right operand
PathJoin(d, name) == d \o <<"/">> \o name

\* str(Path(p))
PathStr(p) ==
  LET parts == Resolve(SplitOn(p, "/"))
  IN IF parts = <<>> THEN <<".">> ELSE Join(parts, <<"/">>)

\* Path.exists() on file system f
Exists(f, p) ==
  LET rp == Resolve(SplitOn(p, "/"))
  IN rp = <<>> \/ rp \in DOMAIN f.files \/ rp \in f.dirs

\* Path.mkdir(parents=True, exist_ok=True) on file system f
Mkdir(f, p) ==
  LET rp == Resolve(SplitOn(p, "/"))
  IN IF \E d \in Prefixes(rp) : d \in DOMAIN f.files
     THEN [ok |-> FALSE, exc |-> "FileExistsError", fs |-> f]
     ELSE [ok |-> TRUE, exc |-> "none", fs |-> [f EXCEPT !.dirs = @ \cup Prefixes(rp)]]

\* Path.write_text(c) on file system f: open(p, 'w') truncates a file that exists,
\* creates no directory
WriteTextOn(f, p, c) ==
  LET rp     == Resolve(SplitOn(p, "/"))
      parent == SubSeq(rp, 1, Len(rp) - 1)
  IN IF rp = <<>> \/ rp \in f.dirs
     THEN [ok |-> FALSE, exc |-> "IsADirectoryError", fs |-> f]
     ELSE IF \E d \in Prefixes(parent) : d \in DOMAIN f.files
     THEN [ok |-> FALSE, exc |-> "NotADirectoryError", fs |-> f]
     ELSE IF parent # <<>> /\ parent \notin f.dirs
     THEN [ok |-> FALSE, exc |-> "FileNotFoundError", fs |-> f]
     ELSE [ok |-> TRUE, exc |-> "none",
           fs |-> [f EXCEPT !.files = [x \in DOMAIN f.files \cup {rp} |->
                                         IF x = rp THEN c ELSE f.files[x]]]]

write_text(f, p, c) == WriteTextOn(f, p, c)

CodeBlock(language, content, filename) ==
  [language |-> language, content |-> content, filename |-> filename]

Response(content) == [content |-> content]

\* export_scripts: the file name of code block b at index n of enumerate
ScriptFilename(b, n) ==
  IF b.filename # None /\ b.filename # <<>> THEN b.filename
  ELSE IF b.language \in {bash, <<"s","h">>, <<"s","h","e","l","l">>}
  THEN <<"s","c","r","i","p","t","-">> \o IntToStr(n + 1) \o <<".","s","h">>
  ELSE IF b.language \in {python, <<"p","y">>}
  THEN <<"s","c","r","i","p","t","_">> \o IntToStr(n + 1) \o <<".","p","y">>
  ELSE <<"s","c","r","i","p","t","-">> \o IntToStr(n + 1) \o <<".">> \o get_extension(b.language)

\* export_docs: the file name of response r at index n of enumerate
DocFilename(r, n) ==
  LET title      == TitleMatch(r.content)
      first_line == Strip(SplitOn(r.content, "\n")[1])
  IN IF title # None THEN to_kebab_case(title) \o <<".","m","d">>
     ELSE IF Len(first_line) > 5 /\ Len(first_line) < 60
     THEN to_kebab_case(first_line) \o <<".","m","d">>
     ELSE <<"r","e","s","p","o","n","s","e","-">> \o IntToStr(n + 1) \o <<".","m","d">>

\* export_scripts: the name tried after filepath p was found to exist
ScriptRenamed(p, c) ==
  PathJoin(scripts_dir, PathStem(p) \o <<"_">> \o IntToStr(c) \o PathSuffix(p))

\* export_docs: the name tried after filepath p was found to exist
DocRenamed(p, c) ==
  PathJoin(docs_dir, PathStem(p) \o <<"-">> \o IntToStr(c) \o <<".","m","d">>)

\* the longest list of code blocks or responses explored
MaxItems == 2

Old == <<"o","l","d">>

SampleBlocks ==
  {CodeBlock(python, <<"x">>, <<"a",".","p","y">>),
   CodeBlock(python, <<"y">>, <<"a",".","p","y">>),
   CodeBlock(bash, <<"s">>, None),
   CodeBlock(python, <<"p">>, None),
   CodeBlock(text, <<"t">>, <<>>),
   CodeBlock(typescript, <<"u">>, <<"s","u","b","/","a",".","p","y">>),
   CodeBlock(text, <<"m">>, <<"M","a","k","e","f","i","l","e">>),
   CodeBlock(text, <<"d">>, <<".">>)}

SampleResponses ==
  {Response(<<"#"," ","M","y"," ","D","o","c","\n","x">>),
   Response(<<"#"," ","m","y","_","d","o","c">>),
   Response(<<"h","e","l","l","o"," ","w","o","r","l","d","!">>),
   Response(<<"h","i">>),
   Response(<<"#"," ","!","!">>)}

ListsUpTo(S, m) == UNION {[1..j -> S] : j \in 0..m}

\* files that may lie in the scripts directory before export_scripts runs
ScriptsBefore ==
  {<<scripts_dir, <<"a",".","p","y">>>>, <<scripts_dir, <<"a","_","1",".","p","y">>>>,
   <<scripts_dir, <<"s","c","r","i","p","t","-","1",".","s","h">>>>, <<scripts_dir, <<"s","u","b">>, <<"a",".","p","y">>>>}

\* files that may lie in the docs directory before export_docs runs
DocsBefore ==
  {<<docs_dir, <<"m","y","-","d","o","c",".","m","d">>>>, <<docs_dir, <<"m","y","-","d","o","c","-","1",".","m","d">>>>,
   <<docs_dir, <<"r","e","s","p","o","n","s","e","-","1",".","m","d">>>>, <<docs_dir, <<".","m","d">>>>}

\* the file systems a run can start on: the directory missing, a file in its place,
\* or the directory with some files of an earlier export in it
FsBefore(d, names) ==
  {[files |-> <<>>, dirs |-> {}], [files |-> [x \in {<<d>>} |-> Old], dirs |-> {}]}
  \cup {[files |-> [x \in S |-> Old],
         dirs  |-> {<<d>>} \cup UNION {Prefixes(SubSeq(x, 1, Len(x) - 1)) : x \in S}] :
        S \in SUBSET names}
  \cup {[files |-> <<>>, dirs |-> {<<d>>, <<d, <<"s","u","b">>>>}]}

InitExport ==
  /\ cand = <<>> /\ verdict = None /\ doc = <<>>
  /\ tool \in {"export_scripts", "export_docs"}
  /\ pc = "export_mkdir"
  /\ k = 0 /\ tokens = <<>> /\ i = 0
  /\ path = None /\ skip = FALSE /\ content_prefix = <<>> /\ h1_is_content = FALSE
  /\ content_lines = <<>> /\ chunks = <<>> /\ paths = <<>>
  /\ units = <<>> /\ marker = 0
  /\ out = <<>> /\ err = "none"
  /\ run = 1 /\ first = None
  /\ code_blocks \in IF tool = "export_scripts" THEN ListsUpTo(SampleBlocks, MaxItems)
                     ELSE {<<>>}
  /\ responses \in IF tool = "export_docs" THEN ListsUpTo(SampleResponses, MaxItems)
                   ELSE {<<>>}
  /\ fs \in IF tool = "export_scripts" THEN FsBefore(scripts_dir, ScriptsBefore)
            ELSE FsBefore(docs_dir, DocsBefore)
  /\ filepath = None /\ counter = 0 /\ executable = {}

exportFrame == <<cand, verdict, doc, tool, k, tokens, path, skip, h1Locals, chunks, paths,
                 units, marker, run, first, code_blocks, responses>>

\* an exception leaves export_scripts / export_docs and ends the run
ExportRaise(e) == pc' = "raised" /\ err' = e

\* export_scripts: scripts_dir.mkdir(parents=True, exist_ok=True)
ExportScriptsMkdir ==
  /\ pc = "export_mkdir" /\ tool = "export_scripts"
  /\ LET m == Mkdir(fs, scripts_dir)
     IN /\ fs' = m.fs
        /\ IF m.ok THEN pc' = "export_item" /\ err' = err ELSE ExportRaise(m.exc)
  /\ UNCHANGED <<exportFrame, i, filepath, counter, executable, out>>

\* export_scripts: the loop takes the next code block, names its file, counter = 1
ExportScriptsName ==
  /\ pc = "export_item" /\ tool = "export_scripts" /\ i < Len(code_blocks)
  /\ filepath' = PathJoin(scripts_dir, ScriptFilename(code_blocks[i + 1], i))
  /\ counter' = 1
  /\ pc' = "export_exists"
  /\ UNCHANGED <<exportFrame, i, fs, executable, out, err>>

\* export_scripts: one turn of while filepath.exists()
ExportScriptsRename ==
  /\ pc = "export_exists" /\ tool = "export_scripts"
  /\ Exists(fs, filepath)
  /\ filepath' = ScriptRenamed(filepath, counter)
  /\ counter' = counter + 1
  /\ UNCHANGED <<exportFrame, pc, i, fs, executable, out, err>>

\* a slip: the while loop left out, the block written to the name first chosen
ExportScriptsWriteUnguarded ==
  /\ pc = "export_exists" /\ tool = "export_scripts"
  /\ \E w \in WriteOutcomes(write_text(fs, filepath, code_blocks[i + 1].content), fs) :
       /\ fs' = w.fs
       /\ IF w.ok
          THEN /\ executable' = IF code_blocks[i + 1].language \in {bash, <<"s","h">>, <<"s","h","e","l","l">>}
                                THEN executable \cup {Resolve(SplitOn(filepath, "/"))}
                                ELSE executable
               /\ out' = Append(out, <<"E","x","p","o","r","t","e","d"," ","s","c","r","i","p","t",":"," ">> \o PathStr(filepath))
               /\ i' = i + 1
               /\ pc' = "export_item" /\ err' = err
          ELSE ExportRaise(w.exc) /\ UNCHANGED <<executable, out, i>>
  /\ UNCHANGED <<exportFrame, filepath, counter>>

\* export_scripts: the while loop left, write_text, os.chmod for a shell script, print
ExportScriptsWrite ==
  /\ pc = "export_exists" /\ tool = "export_scripts"
  /\ ~Exists(fs, filepath)
  /\ \E w \in WriteOutcomes(write_text(fs, filepath, code_blocks[i + 1].content), fs) :
       /\ fs' = w.fs
       /\ IF w.ok
          THEN /\ executable' = IF code_blocks[i + 1].language \in {bash, <<"s","h">>, <<"s","h","e","l","l">>}
                                THEN executable \cup {Resolve(SplitOn(filepath, "/"))}
                                ELSE executable
               /\ out' = Append(out, <<"E","x","p","o","r","t","e","d"," ","s","c","r","i","p","t",":"," ">> \o PathStr(filepath))
               /\ i' = i + 1
               /\ pc' = "export_item" /\ err' = err
          ELSE ExportRaise(w.exc) /\ UNCHANGED <<executable, out, i>>
  /\ UNCHANGED <<exportFrame, filepath, counter>>

\* export_scripts: the loop over code_blocks is exhausted
ExportScriptsReturn ==
  /\ pc = "export_item" /\ tool = "export_scripts" /\ i = Len(code_blocks)
  /\ pc' = "done"
  /\ UNCHANGED <<exportFrame, i, fs, filepath, counter, executable, out, err>>

\* export_docs: docs_dir.mkdir(parents=True, exist_ok=True)
ExportDocsMkdir ==
  /\ pc = "export_mkdir" /\ tool = "export_docs"
  /\ LET m == Mkdir(fs, docs_dir)
     IN /\ fs' = m.fs
        /\ IF m.ok THEN pc' = "export_item" /\ err' = err ELSE ExportRaise(m.exc)
  /\ UNCHANGED <<exportFrame, i, filepath, counter, executable, out>>

\* export_docs: the loop takes the next response, names its file, counter = 1
ExportDocsName ==
  /\ pc = "export_item" /\ tool = "export_docs" /\ i < Len(responses)
  /\ filepath' = PathJoin(docs_dir, DocFilename(responses[i + 1], i))
  /\ counter' = 1
  /\ pc' = "export_exists"
  /\ UNCHANGED <<exportFrame, i, fs, executable, out, err>>

\* export_docs: one turn of while filepath.exists()
ExportDocsRename ==
  /\ pc = "export_exists" /\ tool = "export_docs"
  /\ Exists(fs, filepath)
  /\ filepath' = DocRenamed(filepath, counter)
  /\ counter' = counter + 1
  /\ UNCHANGED <<exportFrame, pc, i, fs, executable, out, err>>

\* export_docs: the while loop left, write_text, print
ExportDocsWrite ==
  /\ pc = "export_exists" /\ tool = "export_docs"
  /\ ~Exists(fs, filepath)
  /\ \E w \in WriteOutcomes(write_text(fs, filepath, responses[i + 1].content), fs) :
       /\ fs' = w.fs
       /\ IF w.ok
          THEN /\ out' = Append(out, <<"E","x","p","o","r","t","e","d"," ","d","o","c",":"," ">> \o PathStr(filepath))
               /\ i' = i + 1
               /\ pc' = "export_item" /\ err' = err
          ELSE ExportRaise(w.exc) /\ UNCHANGED <<out, i>>
  /\ UNCHANGED <<exportFrame, filepath, counter, executable>>

\* export_docs: the loop over responses is exhausted
ExportDocsReturn ==
  /\ pc = "export_item" /\ tool = "export_docs" /\ i = Len(responses)
  /\ pc' = "done"
  /\ UNCHANGED <<exportFrame, i, fs, filepath, counter, executable, out, err>>

NextExport ==
  \/ ExportScriptsMkdir
  \/ ExportScriptsName
  \/ ExportScriptsRename
  \/ ExportScriptsWrite
  \/ ExportScriptsReturn
  \/ ExportDocsMkdir
  \/ ExportDocsName
  \/ ExportDocsRename
  \/ ExportDocsWrite
  \/ ExportDocsReturn

SpecExport == InitExport /\ [][NextExport]_vars

---------------------------------------------------------------------------
(* Vocabulary of the properties, stated apart from the definitions above *)

IOErrors == {"OSError", "FileExistsError", "IsADirectoryError"}

\* (\.[a-z]+)* read as a shape: the rest of p from n is empty, or starts with a dot,
\* ends with a lower-case letter, holds dots and lower-case letters only, no two dots
\* side by side
ExtensionTail(p, n) ==
  \/ n = Len(p) + 1
  \/ /\ n <= Len(p)
     /\ p[n] = "."
     /\ p[Len(p)] \in Lower
     /\ \A j \in n..Len(p) : p[j] \in Lower \cup {"."}
     /\ \A j \in n..(Len(p) - 1) : ~(p[j] = "." /\ p[j + 1] = ".")

\* p matches ^[.A-Za-z][/\-_A-Za-z]*(\.[a-z]+)*$ (p without a line break)
MatchesPattern(p) ==
  /\ Len(p) >= 1
  /\ p[1] \in {"."} \cup Upper \cup Lower
  /\ \E m \in 1..Len(p) :
       /\ \A j \in 2..m : p[j] \in {"/", "-", "_"} \cup Upper \cup Lower
       /\ ExtensionTail(p, m + 1)

PathShaped(p) ==
  MatchesPattern(p) /\ ((\E n \in DOMAIN p : p[n] = ".") \/ p = LICENSE)

Count(seq, x) == Cardinality({n \in 1..Len(seq) : seq[n] = x})

UnitPaths == [n \in 1..Len(units) |-> units[n].path]

Written == {units[n].path : n \in 1..Len(units)}

UnitsOf(by, kk) == {n \in 1..Len(units) : units[n].by = by /\ units[n].k = kk}

\* the file a relative path names
FileOf(p) == Resolve(SplitOn(p, "/"))

IsInfix(a, b) == \E n \in 0..(Len(b) - Len(a)) : SubSeq(b, n + 1, n + Len(a)) = a

---------------------------------------------------------------------------
(* C1 *)

\* C1: is_path(p) is true iff p matches the pattern and (p contains a dot or p is
\* LICENSE), for every candidate over the bounded alphabet, and the copies of is_path
\* in fiction_index and open-learning-cloud agree.
C1_IsPathIffPattern ==
  verdict # None =>
    /\ verdict[1] = PathShaped(cand)
    /\ verdict[2] = verdict[1]

C1_Witness == verdict # None /\ cand = LICENSE /\ verdict[1] /\ verdict[2]

---------------------------------------------------------------------------
(* C2 *)

\* the lines of a fence as the document holds them
FenceText(t) == <<t.markup \o t.info>> \o SplitLines(t.content) \o <<t.markup>>

\* C2: in the h1 strategy, whenever the heading that opened a unit is followed by a
\* fence token, the last token of the stream included, the content written for the
\* unit holds the delimiter+info line, the body lines and the closing delimiter.
C2_FenceReproduced ==
  \A n \in 1..Len(units) :
    LET u == units[n]
        s == doc[u.k].parsed
    IN (u.by = "h1" /\ u.marker + 3 <= Len(s) /\ s[u.marker + 3].type = "fence")
         => IsInfix(FenceText(s[u.marker + 3]), SplitLines(u.content))

---------------------------------------------------------------------------
(* C3 *)

MegaBlock(t) == t.type = "fence" /\ t.markup = Bt4 /\ t.info = typescript

\* a marker line starts at n
MarkerLine(s, n) ==
  /\ n + 2 <= Len(s)
  /\ s[n] = "/" /\ s[n + 1] = "/" /\ s[n + 2] = " "
  /\ (n = 1 \/ s[n - 1] = "\n")

\* the first position from n on that satisfies P, or Len(s) + 1
FirstFrom(s, n, P(_)) ==
  IF \E m \in n..Len(s) : P(m)
  THEN CHOOSE m \in n..Len(s) : P(m) /\ \A j \in n..(m - 1) : ~P(j)
  ELSE Len(s) + 1

RECURSIVE ExpectedUnits(_, _)
\* the units the marker lines of s from position from on stand for: the first line
\* after the marker is the path, the text up to the next marker line the content
ExpectedUnits(s, from) ==
  LET n == FirstFrom(s, from, LAMBDA m : MarkerLine(s, m))
  IN IF n > Len(s) THEN <<>>
     ELSE LET e  == FirstFrom(s, n, LAMBDA m : s[m] = "\n")
              nx == FirstFrom(s, n + 1, LAMBDA m : MarkerLine(s, m))
              p  == SubSeq(s, n + 3, e - 1)
          IN (IF PathShaped(p)
              THEN <<[path |-> p, content |-> SubSeq(s, e + 1, nx - 1)]>>
              ELSE <<>>) \o ExpectedUnits(s, n + 1)

TsUnits(kk) ==
  LET sel == SelectSeq(units, LAMBDA u : u.by = "ts" /\ u.k = kk)
  IN [n \in 1..Len(sel) |-> [path |-> sel[n].path, content |-> sel[n].content]]

\* pass_02_fence_ts has ended on the fence at kk, by returning or by a ValueError
TsEnded(kk) ==
  \/ pc = "pass_02" /\ k > kk
  \/ pc \in {"report", "done"}
  \/ pc = "raised" /\ err = "ValueError" /\ k = kk

\* C3: for a mega-block fence the text before the first marker is discarded and each
\* chunk yields a unit exactly when its first line is a path, with the text up to the
\* next marker line as content.
C3_MegaBlockUnits ==
  \A kk \in 1..Len(doc) :
    (tool = "fiction_index" /\ MegaBlock(doc[kk]) /\ TsEnded(kk))
      => TsUnits(kk) = ExpectedUnits(doc[kk].content, 1)

---------------------------------------------------------------------------
(* C4 *)

PayloadFence(t) == t.type = "fence" /\ t.markup = Bt3 /\ ~t.hidden

\* the path-shaped h3 headings of s that have a payload fence after them
PathH3WithFence(s) ==
  {n \in 1..(Len(s) - 1) :
     /\ s[n].type = "heading_open" /\ s[n].tag = "h3"
     /\ PathShaped(s[n + 1].content)
     /\ \E m \in (n + 1)..Len(s) : PayloadFence(s[m])}

\* C4: the h3 strategy emits at most as many units as there are path-shaped h3
\* headings with a later payload fence; a path-shaped h3 heading with no fence after
\* it yields no unit.
C4_DanglingH3 ==
  \A kk \in 1..Len(doc) :
    Cardinality(UnitsOf("h3", kk)) <= Cardinality(PathH3WithFence(doc[kk].parsed))

\* the h3 strategy has returned from a stream with a path-shaped h3 heading and no
\* fence, and no unit came of it
C4_Witness ==
  /\ pc = "pass_01" /\ k = 2
  /\ \E n \in 1..(Len(doc[1].parsed) - 1) :
       /\ doc[1].parsed[n].type = "heading_open" /\ doc[1].parsed[n].tag = "h3"
       /\ PathShaped(doc[1].parsed[n + 1].content)
  /\ \A n \in 1..Len(doc[1].parsed) : doc[1].parsed[n].type # "fence"
  /\ UnitsOf("h3", 1) = {}
  /\ fs.files = <<>>

---------------------------------------------------------------------------
(* C5 *)

\* C5: last write wins: every file holds exactly the content of the last unit
\* emitted for it, and there is no file that no unit was emitted for.
C5_LastWriteWins ==
  /\ DOMAIN fs.files = {FileOf(q) : q \in Written}
  /\ \A n \in 1..Len(units) :
       (\A m \in (n + 1)..Len(units) : FileOf(units[m].path) # FileOf(units[n].path))
         => fs.files[FileOf(units[n].path)] = units[n].content

\* two units have carried one path with different contents
C5_Witness ==
  \E m \in 1..Len(units) : \E n \in (m + 1)..Len(units) :
    /\ units[m].path = units[n].path
    /\ units[m].content # units[n].content
    /\ units[m].by # units[n].by
    /\ fs.files[FileOf(units[n].path)] = units[n].content

---------------------------------------------------------------------------
(* C6 *)

\* the path a heading title stands for in strategy by, or None
TitlePath(by, title) ==
  IF by = "h3" THEN title
  ELSE IF SplitWords(title) = <<>> THEN None ELSE SplitWords(title)[1]

\* the token at n of stream s is a heading of strategy by with a path-shaped title,
\* and p is the path it stands for
MarkerOf(s, n, by, p) ==
  /\ n \in 1..(Len(s) - 1)
  /\ s[n].type = "heading_open" /\ s[n].tag = by
  /\ p = TitlePath(by, s[n + 1].content)
  /\ PathShaped(p)

\* C6: a heading whose title is not path-shaped never sets the pending path, and no
\* unit is emitted under it: the pending path and the path of every unit of a
\* heading-based strategy are the title of a path-shaped heading.
C6_NonPathRejected ==
  /\ (pc \in {"h1", "h3"} /\ path # None) => MarkerOf(tokens, marker, pc, path)
  /\ \A n \in 1..Len(units) :
       units[n].by \in {"h1", "h3"}
         => MarkerOf(doc[units[n].k].parsed, units[n].marker, units[n].by, units[n].path)

\* the h1 strategy has just passed a heading titled Database Schema, nothing pending
C6_Witness ==
  /\ pc = "h1" /\ i >= 2 /\ skip
  /\ tokens[i - 1].type = "heading_open" /\ tokens[i - 1].tag = "h1"
  /\ tokens[i].content = DatabaseSchema
  /\ path = None

---------------------------------------------------------------------------
(* C7 *)

\* C7: no strategy raises on a stream of the tokenizer: a run ends only by the
\* report or by a failure of write_file.
C7_NoStrategyRaises == err \in {"none"} \cup IOErrors

---------------------------------------------------------------------------
(* C8 *)

\* C8: the h1 strategy emits a unit only for a marker that has accumulated at least
\* one content line.
C8_CompletePair ==
  [][(Len(units') = Len(units) + 1 /\ units'[Len(units')].by = "h1")
       => content_lines # <<>>]_vars

---------------------------------------------------------------------------
(* C9 *)

\* C9: once write_file has failed, no later unit is written and the report is not
\* printed.
C9_IoFailureFatal ==
  /\ [](err \in IOErrors => out = <<>>)
  /\ [][(err \in IOErrors) => (UNCHANGED <<fs, units, paths, out, err>>)]_vars

\* a write has failed after an earlier unit was written
C9_Witness == err \in IOErrors /\ units # <<>> /\ out = <<>>

---------------------------------------------------------------------------
(* C10 *)

Printed == Tail(out)

\* C10 as stated: after the separator the written paths are printed in ascending
\* order, all of them and no other, each once.
C10_PrintedOnce ==
  pc = "done" =>
    /\ out[1] = Dashes(SeparatorWidth)
    /\ \A n \in 1..(Len(Printed) - 1) : ~StrLess(Printed[n + 1], Printed[n])
    /\ {Printed[n] : n \in 1..Len(Printed)} = Written
    /\ \A q \in Written : Count(Printed, q) = 1

\* C10, amended: after the separator the written paths are printed in ascending
\* order, all of them and no other, each once per unit that wrote it.
C10_PrintedPerUnit ==
  pc = "done" =>
    /\ out[1] = Dashes(SeparatorWidth)
    /\ \A n \in 1..(Len(Printed) - 1) : ~StrLess(Printed[n + 1], Printed[n])
    /\ {Printed[n] : n \in 1..Len(Printed)} = Written
    /\ \A q \in Written : Count(Printed, q) = Count(UnitPaths, q)

\* a report of two paths, one of them written twice
C10_Witness ==
  /\ pc = "done"
  /\ Cardinality(Written) >= 2
  /\ \E q \in Written : Count(UnitPaths, q) >= 2 /\ Count(Printed, q) >= 2

---------------------------------------------------------------------------
(* C11 *)

\* a run has ended
Ended == pc \in {"done", "raised"}

\* C11: when the script is run twice on one document, the first run from an empty
\* directory, and the environment fails neither run, the second run emits the units
\* of the first in the same order, ends the same way with the same report, and leaves
\* every file with the content it had after the first run, and no other file.
C11_Idempotent ==
  (run = 2 /\ Ended /\ err # "OSError" /\ first.err # "OSError") =>
    /\ [n \in 1..Len(units) |-> <<units[n].path, units[n].content>>]
         = [n \in 1..Len(first.units) |-> <<first.units[n].path, first.units[n].content>>]
    /\ fs = first.fs
    /\ out = first.out
    /\ err = first.err

\* the second run has ended after rewriting a file that two units of different
\* contents are written to, and the files are as the first run left them
C11_Witness ==
  /\ run = 2 /\ pc = "done"
  /\ \E m \in 1..Len(units) : \E n \in (m + 1)..Len(units) :
       units[m].path = units[n].path /\ units[m].content # units[n].content
  /\ fs = first.fs /\ fs.files # <<>>

---------------------------------------------------------------------------
(* C12 *)

Letters == Upper \cup Lower

\* the shape as the prose has it
ProseShape(p) ==
  /\ Len(p) >= 1
  /\ p[1] \in Letters \cup {"."}
  /\ \A n \in 2..Len(p) : p[n] \in Letters \cup {".", "/", "-", "_"}
  /\ (\E n \in 1..Len(p) : p[n] = ".") \/ p = LICENSE

OtherCharacter(p) == \E n \in 1..Len(p) : p[n] \notin Letters \cup {".", "/", "-", "_"}

\* every dot after the first character starts a run of lower-case extensions that
\* goes to the end of p
DotsTrail(p) ==
  \A n \in 2..Len(p) :
    p[n] = "." =>
      /\ n < Len(p) /\ p[n + 1] \in Lower
      /\ \A j \in (n + 1)..Len(p) : p[j] \in Lower \cup {"."}

PathExamples == {SrcDbSchemaTs, Gitignore, EnvExample, LICENSE, <<".">>}

---------------------------------------------------------------------------
(* C13 *)

\* the token at n of s opens an h3 heading with a path-shaped title
PathH3(s, n) ==
  /\ n < Len(s)
  /\ s[n].type = "heading_open" /\ s[n].tag = "h3"
  /\ PathShaped(s[n + 1].content)

RECURSIVE H3Expected(_, _, _)
\* the units of the h3 convention in s from n on, with pending the pending marker:
\* every payload fence met with a marker pending closes one unit, the last token of
\* the stream included
H3Expected(s, n, pending) ==
  IF n > Len(s) THEN <<>>
  ELSE IF PathH3(s, n) THEN H3Expected(s, n + 1, s[n + 1].content)
  ELSE IF pending # None /\ PayloadFence(s[n])
  THEN <<[path |-> pending, content |-> s[n].content]>> \o H3Expected(s, n + 1, None)
  ELSE H3Expected(s, n + 1, pending)

H3Units(kk) ==
  LET sel == SelectSeq(units, LAMBDA u : u.by = "h3" /\ u.k = kk)
  IN [n \in 1..Len(sel) |-> [path |-> sel[n].path, content |-> sel[n].content]]

\* pass_01_fence_md_h3 has returned from the wrapper at kk
H3Returned(kk) ==
  /\ tool = "fiction_index"
  /\ \/ pc = "pass_01" /\ k > kk
     \/ pc \in {"pass_02", "ts", "report", "done"}

\* C13: in the h3 strategy every payload fence met with a marker pending, the last
\* token of the stream included, closes exactly one unit (pending path, the fence's
\* content), and a fence with no marker pending emits nothing.
C13_NextFenceCloses ==
  \A kk \in 1..Len(doc) :
    (H3Returned(kk) /\ doc[kk].parsed # <<>>)
      => H3Units(kk) = H3Expected(doc[kk].parsed, 1, None)

---------------------------------------------------------------------------
(* C14 *)

\* the h1 strategy is about to process the token at i, not skipped, with a unit open
H1Processing == pc = "h1" /\ i < Len(tokens) /\ ~skip /\ path # None

H1HeadingAt(s, n) == s[n].type = "heading_open" /\ s[n].tag = "h1"

\* a rule or a fence has been processed since the marker of the open unit
RuleOrFenceSince == \E j \in (marker + 1)..(i - 1) : tokens[j].type \in {"hr", "fence"}

\* the step has written the open unit, once, with the content accumulated so far
FlushedOnce ==
  /\ Len(units') = Len(units) + 1
  /\ units'[Len(units')].path = path
  /\ units'[Len(units')].content = Flush(content_lines)
  /\ units'[Len(units')].by = "h1"
  /\ SubSeq(units', 1, Len(units)) = units

\* C14: in the h1 strategy, with a unit open and a rule or a fence processed since
\* its marker, the next h1 heading is a marker candidate: unless the environment
\* fails the write, the step flushes the open unit once with the content accumulated
\* so far, appends nothing of the heading to it, and leaves a unit open exactly when
\* the heading's first word is a path, under that word.
C14_HeadingAfterRuleIsMarker ==
  [][(H1Processing /\ H1HeadingAt(tokens, i) /\ RuleOrFenceSince)
       => LET words == SplitWords(tokens[i + 1].content)
          IN /\ ~h1_is_content
             /\ err' \notin IOErrors => FlushedOnce
             /\ pc' = "h1" =>
                  /\ content_lines' = <<>> /\ skip' /\ content_prefix' = content_prefix
                  /\ (path' # None) = PathShaped(words[1])
                  /\ path' # None => path' = words[1] /\ marker' = i
             /\ pc' = "raised" => err' \in IOErrors \/ words = <<>>]_vars

\* a heading after a rule has closed the unit that was open and has opened the next
C14_Witness ==
  /\ pc = "h1" /\ skip /\ i >= 2
  /\ H1HeadingAt(tokens, i - 1)
  /\ path # None /\ marker = i - 1
  /\ units # <<>>
  /\ LET u == units[Len(units)]
     IN /\ u.by = "h1" /\ u.k = k
        /\ \E j \in (u.marker + 1)..(i - 2) : tokens[j].type = "hr"

---------------------------------------------------------------------------
(* C15 *)

\* no rule and no fence lies between the marker of the open unit and position n
NoRuleOrFenceUpTo(n) == \A j \in (marker + 1)..(n - 1) : tokens[j].type \notin {"hr", "fence"}

\* C15: in the h1 strategy, with a unit open and neither a rule nor a fence processed
\* since its marker, a further h1 heading, path-shaped or not, is content: the step
\* on the heading writes nothing and keeps the pending path, and the step on its
\* inline token appends the line "# " + text to the content of the open unit.
C15_SecondHeadingIsContent ==
  [][/\ (H1Processing /\ H1HeadingAt(tokens, i) /\ NoRuleOrFenceUpTo(i))
        => /\ h1_is_content
           /\ pc' = "h1" /\ ~skip' /\ i' = i + 1
           /\ UNCHANGED <<path, marker, content_lines, units, paths, fs, err>>
     /\ (/\ H1Processing /\ i >= 2 /\ marker < i - 1
         /\ H1HeadingAt(tokens, i - 1) /\ NoRuleOrFenceUpTo(i - 1))
        => /\ tokens[i].type = "inline"
           /\ content_lines' = Append(content_lines, <<"#", " ">> \o tokens[i].content)
           /\ pc' = "h1" /\ i' = i + 1
           /\ UNCHANGED <<path, marker, units, paths, fs, err>>]_vars

\* a second h1 heading with a path-shaped title has become a line of the open unit
C15_Witness ==
  /\ pc = "h1" /\ i >= 3 /\ path # None /\ marker < i - 2
  /\ H1HeadingAt(tokens, i - 2)
  /\ PathShaped(tokens[i - 1].content)
  /\ NoRuleOrFenceUpTo(i)
  /\ content_lines # <<>>
  /\ content_lines[Len(content_lines)] = <<"#", " ">> \o tokens[i - 1].content
  /\ UnitsOf("h1", k) = {}

---------------------------------------------------------------------------
(* C16 *)

\* the step has emitted a unit of the h1 strategy
H1UnitEmitted == Len(units') = Len(units) + 1 /\ units'[Len(units')].by = "h1"

EndsWithOneNewline(c) ==
  /\ Len(c) >= 1 /\ c[Len(c)] = "\n"
  /\ Len(c) >= 2 => c[Len(c) - 1] # "\n"

\* C16: every content the h1 strategy writes, at a marker heading or at the end of
\* the stream, is the accumulated lines joined with line breaks, stripped, plus one
\* line break; it ends with exactly one line break and does not start with
\* whitespace.
C16_FlushFormat ==
  [][H1UnitEmitted
       => LET c == units'[Len(units')].content
          IN /\ c = Strip(Join(content_lines, <<"\n">>)) \o <<"\n">>
             /\ EndsWithOneNewline(c)
             /\ c[1] \notin Whitespace]_vars

---------------------------------------------------------------------------
(* C17 *)

WrapperFence(t) == t.type = "fence" /\ t.markup = Bt4 /\ t.info = markdown

\* the stream holds an h1 heading whose first word is path-shaped
HasPathH1(s) ==
  \E n \in 1..(Len(s) - 1) :
    /\ H1HeadingAt(s, n)
    /\ SplitWords(s[n + 1].content) # <<>>
    /\ PathShaped(SplitWords(s[n + 1].content)[1])

\* the stream holds a path-shaped h3 heading and a payload fence after it, before
\* the last token
HasFencedH3(s) ==
  \E n \in 1..(Len(s) - 1) :
    PathH3(s, n) /\ \E m \in (n + 1)..(Len(s) - 1) : PayloadFence(s[m])

\* every strategy has left its units for every fence of the document it applies to
EveryStrategyRan ==
  \A kk \in 1..Len(doc) :
    /\ (WrapperFence(doc[kk]) /\ HasPathH1(doc[kk].parsed)) => UnitsOf("h1", kk) # {}
    /\ (WrapperFence(doc[kk]) /\ HasFencedH3(doc[kk].parsed)) => UnitsOf("h3", kk) # {}
    /\ (MegaBlock(doc[kk]) /\ ExpectedUnits(doc[kk].content, 1) # <<>>)
         => UnitsOf("ts", kk) # {}

\* C17 as stated: every unit of the h1 strategy precedes every unit of the h3
\* strategy, every unit of both precedes every unit of the mega-block strategy, and
\* a run that ends with the report has run every strategy.
C17_StrategyOrder ==
  /\ \A m \in 1..Len(units) : \A n \in (m + 1)..Len(units) :
       /\ units[n].by = "h1" => units[m].by = "h1"
       /\ units[n].by = "h3" => units[m].by \in {"h1", "h3"}
  /\ (pc = "done" /\ tool = "fiction_index") => EveryStrategyRan

\* C17, amended: the wrappers are taken in document order, within one wrapper every
\* unit of the h1 strategy precedes every unit of the h3 strategy, every unit of both
\* precedes every unit of the mega-block strategy, and a run that ends with the
\* report has run every strategy.
C17_OrderPerWrapper ==
  /\ \A m \in 1..Len(units) : \A n \in (m + 1)..Len(units) :
       /\ units[n].by \in {"h1", "h3"} =>
            /\ units[m].by \in {"h1", "h3"}
            /\ units[m].k <= units[n].k
       /\ (units[n].by = "h1" /\ units[m].k = units[n].k) => units[m].by = "h1"
  /\ (pc = "done" /\ tool = "fiction_index") => EveryStrategyRan

\* a run has ended with a unit of the h3 strategy from the first wrapper, then a unit
\* of the h1 strategy from the second, then the units of the mega-block
C17_Witness ==
  /\ pc = "done" /\ tool = "fiction_index"
  /\ \E m \in 1..Len(units) : \E n \in (m + 1)..Len(units) :
       /\ units[m].by = "h3" /\ units[n].by = "h1" /\ units[m].k < units[n].k
       /\ \E l \in (n + 1)..Len(units) : units[l].by = "ts"

---------------------------------------------------------------------------
(* C18 *)

NamedFence(t) == t.type = "fence" /\ t.info # <<>> /\ t.info # markdown

RECURSIVE LooseExpected(_, _)
\* the units of the loose convention in s from position m on: one for every named
\* fence whose token two positions earlier is an inline token holding a path
LooseExpected(s, m) ==
  IF m > Len(s) THEN <<>>
  ELSE (IF /\ NamedFence(s[m])
           /\ m >= 3
           /\ s[m - 2].type = "inline"
           /\ PathShaped(s[m - 2].content)
        THEN <<[path |-> s[m - 2].content, content |-> s[m].content]>>
        ELSE <<>>) \o LooseExpected(s, m + 1)

LooseUnits(kk) ==
  LET sel == SelectSeq(units, LAMBDA u : u.by = "a" /\ u.k = kk)
  IN [n \in 1..Len(sel) |-> [path |-> sel[n].path, content |-> sel[n].content]]

\* pass_01_a has ended on the wrapper at kk, by returning or by an AssertionError
LooseEnded(kk) ==
  /\ tool = "open_learning_cloud"
  /\ \/ pc = "olc_pass_01" /\ k > kk
     \/ pc \in {"report", "done"}
     \/ pc = "raised" /\ err = "AssertionError" /\ k = kk

\* C18: in open-learning-cloud, for the stream of every markdown wrapper the units
\* are one per named fence whose token two positions earlier is an inline token
\* holding a path, with the fence's content; nothing else is written, and nothing for
\* a fence outside a wrapper.
C18_LooseVariant ==
  tool = "open_learning_cloud" =>
    /\ \A n \in 1..Len(units) : units[n].by = "a" /\ WrapperFence(doc[units[n].k])
    /\ \A kk \in 1..Len(doc) :
         (WrapperFence(doc[kk]) /\ LooseEnded(kk))
           => LooseUnits(kk) = LooseExpected(doc[kk].parsed, 1)

---------------------------------------------------------------------------
(* C19 *)

\* an opening token other than paragraph_open
Opener(t) ==
  t.type \in {"heading_open", "bullet_list_open", "ordered_list_open",
              "list_item_open", "blockquote_open"}

\* the token at i is processed as content of the open unit: it is not skipped and
\* it is not a heading that closes the unit
ContentToken ==
  H1Processing /\ ~(H1HeadingAt(tokens, i) /\ ~h1_is_content)

\* C19: in the h1 strategy, with a unit open, an opening token other than
\* paragraph_open sets the pending prefix to its markup and a space; an inline token
\* appends the one line prefix + text and clears the prefix; the prefix changes in no
\* other way but by a fence, which clears it; so within a unit an inline token with
\* no opener since the previous inline or fence token is appended without prefix.
C19_LinePrefix ==
  /\ [][/\ (ContentToken /\ Opener(tokens[i]))
           => /\ content_prefix' = tokens[i].markup \o <<" ">>
              /\ content_lines' = content_lines
        /\ (ContentToken /\ tokens[i].type = "inline")
           => /\ content_lines' = Append(content_lines, content_prefix \o tokens[i].content)
              /\ content_prefix' = <<>>
        /\ (pc = "h1" /\ pc' = "h1" /\ content_prefix' # content_prefix)
           => /\ ContentToken
              /\ \/ Opener(tokens[i])
                 \/ tokens[i].type \in {"inline", "fence"} /\ content_prefix' = <<>>]_vars
  /\ [](\A j \in (marker + 2)..(i - 1) :
          (/\ H1Processing /\ tokens[i].type = "inline"
           /\ tokens[j].type \in {"inline", "fence"}
           /\ \A n \in (j + 1)..(i - 1) : ~Opener(tokens[n]))
            => content_prefix = <<>>)

\* the text of a list item has been appended behind the item's markup, once, and
\* the prefix is cleared
C19_Witness ==
  /\ pc = "h1" /\ path # None /\ i >= 4
  /\ tokens[i - 1].type = "inline"
  /\ tokens[i - 3].type = "list_item_open"
  /\ content_lines # <<>>
  /\ content_lines[Len(content_lines)] = <<"-", " ">> \o tokens[i - 1].content
  /\ content_prefix = <<>>

---------------------------------------------------------------------------
(* C20 *)

ClosingToken(t) ==
  t.type \in {"heading_close", "paragraph_close", "list_item_close", "bullet_list_close",
              "ordered_list_close", "blockquote_close"}

\* the step appends one empty line, or nothing, as b says
AppendsEmptyLineIff(b) ==
  content_lines' = IF b THEN Append(content_lines, <<>>) ELSE content_lines

---------------------------------------------------------------------------
(* C22 *)

\* C22: in every state of the h1 pass the flag h1_is_content is true only with a path
\* pending, and skip is true only right after an h1 heading_open processed as a
\* marker candidate, with that heading's inline title as the token to skip; the
\* step taken with skip set does nothing but pass that token and clear skip.
C22_FlagsOfH1 ==
  /\ [](pc = "h1" =>
          /\ h1_is_content => path # None
          /\ skip => /\ i >= 2 /\ i < Len(tokens)
                      /\ H1HeadingAt(tokens, i - 1)
                      /\ tokens[i].type = "inline")
  /\ [][/\ (pc = "h1" /\ pc' = "h1" /\ skip')
           => /\ ~skip /\ ~h1_is_content
              /\ H1HeadingAt(tokens, i)
              /\ i' = i + 1
        /\ (pc = "h1" /\ skip)
           => /\ ~skip' /\ i' = i + 1 /\ pc' = "h1"
              /\ UNCHANGED <<path, content_lines, content_prefix, h1_is_content,
                             units, paths, fs, err>>]_vars

\* a second marker heading has been processed: its title is about to be skipped,
\* the flag is set and a path is pending
C22_Witness ==
  /\ pc = "h1" /\ skip /\ h1_is_content /\ path # None
  /\ i >= 2 /\ H1HeadingAt(tokens, i - 1) /\ tokens[i].type = "inline"
  /\ UnitsOf("h1", k) # {}

---------------------------------------------------------------------------
(* C23 *)

\* the last token that belongs to the unit opened by the marker heading at m: the
\* token before the next h1 heading that follows a rule or a fence, or else the
\* last token the pass processes
UnitEnd(s, m) ==
  LET closers == {n \in (m + 1)..(Len(s) - 1) :
                    /\ H1HeadingAt(s, n)
                    /\ \E j \in (m + 1)..(n - 1) : s[j].type \in {"hr", "fence"}}
  IN IF closers = {} THEN Len(s) - 1
     ELSE (CHOOSE n \in closers : \A c \in closers : n <= c) - 1

RECURSIVE Replay(_, _, _, _)
\* the lines that the tokens n..e of s stand for, with prefix pending: no token
\* outside n..e has a part in them
Replay(s, n, e, prefix) ==
  IF n > e THEN <<>>
  ELSE LET t == s[n]
           t_next == s[n + 1]
       IN IF Opener(t) THEN Replay(s, n + 1, e, t.markup \o <<" ">>)
          ELSE IF t.type = "inline"
          THEN <<prefix \o t.content>> \o Replay(s, n + 1, e, <<>>)
          ELSE IF t.type = "fence"
          THEN FenceLines(t) \o Replay(s, n + 1, e, <<>>)
          ELSE IF \/ t.type = "heading_close"
                  \/ /\ t.type = "paragraph_close"
                     /\ ~ClosingToken(t_next) /\ t_next.type # "fence"
                  \/ /\ t.type = "list_item_close"
                     /\ t_next.type \in {"heading_open", "bullet_list_close",
                                         "ordered_list_close"}
          THEN <<<<>>>> \o Replay(s, n + 1, e, prefix)
          ELSE Replay(s, n + 1, e, prefix)

\* C23: in the h1 strategy the accumulated lines are empty while no path is pending
\* and when a unit opens, and they come from the tokens after the marker of the open
\* unit only; so the content of every emitted unit is made of the tokens between its
\* marker heading and the heading that closed it (or the end of the stream), and
\* the tokens of two units of one stream do not overlap.
C23_ContentIsolation ==
  /\ (pc = "h1" /\ path = None) => content_lines = <<>>
  /\ (pc = "h1" /\ path # None)
       => content_lines = Replay(tokens, marker + 2, i - 1, <<>>)
  /\ \A n \in 1..Len(units) :
       units[n].by = "h1" =>
         LET s == doc[units[n].k].parsed
             m == units[n].marker
         IN /\ units[n].content
                 = Strip(Join(Replay(s, m + 2, UnitEnd(s, m), <<>>), <<"\n">>)) \o <<"\n">>
            /\ \A l \in (n + 1)..Len(units) :
                 (units[l].by = "h1" /\ units[l].k = units[n].k)
                   => UnitEnd(s, m) < units[l].marker

\* two units of one stream have been emitted: the first holds the lines of a fence,
\* the second, opened after it, holds none of them
C23_Witness ==
  \E m \in 1..Len(units) : \E n \in (m + 1)..Len(units) :
    /\ units[m].by = "h1" /\ units[n].by = "h1" /\ units[m].k = units[n].k
    /\ \E j \in (units[m].marker + 1)..(units[n].marker - 1) :
         /\ doc[units[m].k].parsed[j].type = "fence"
         /\ IsInfix(FenceText(doc[units[m].k].parsed[j]), SplitLines(units[m].content))
    /\ units[n].content = <<"\n">>

---------------------------------------------------------------------------
(* C21 *)

\* the item export_scripts / export_docs is placing: code_blocks[i] or responses[i]
ExportItemContent ==
  IF tool = "export_scripts" THEN code_blocks[i + 1].content ELSE responses[i + 1].content

\* the file system entries a turn of the renaming loop can find
ExportEntries == Cardinality(DOMAIN fs.files) + Cardinality(fs.dirs)

\* C21: export_scripts and export_docs never overwrite. Whatever files lie in the target
\* directory and whatever the code blocks or responses are, several of one file name
\* included: a step that changes the files adds exactly one file, at filepath, which
\* did not exist as a file or a directory when the step began, with the content of the
\* item being placed; every file there before the step, pre-existing or written earlier
\* in the run, keeps its content; and the renaming loop ends, having taken no more
\* turns than the file system has entries.
C21_NeverOverwrites ==
  /\ [](pc = "export_exists" => counter >= 1 /\ counter - 1 <= ExportEntries)
  /\ [][/\ \A x \in DOMAIN fs.files :
              x \in DOMAIN fs'.files /\ fs'.files[x] = fs.files[x]
        /\ fs'.files # fs.files
              => LET rp == Resolve(SplitOn(filepath, "/"))
                 IN /\ pc = "export_exists"
                    /\ ~Exists(fs, filepath)
                    /\ rp \notin DOMAIN fs.files /\ rp \notin fs.dirs
                    /\ DOMAIN fs'.files = DOMAIN fs.files \cup {rp}
                    /\ fs'.files[rp] = ExportItemContent
                    /\ i' = i + 1]_vars

\* two code blocks named a.py exported into a directory that holds a.py and a_1.py:
\* the old files are as they were, the blocks are in a_1_2.py and a_1_2_3.py
C21_Witness ==
  /\ pc = "done" /\ tool = "export_scripts"
  /\ Len(code_blocks) = 2
  /\ ScriptFilename(code_blocks[1], 0) = <<"a",".","p","y">>
  /\ ScriptFilename(code_blocks[2], 1) = <<"a",".","p","y">>
  /\ code_blocks[1].content # code_blocks[2].content
  /\ DOMAIN fs.files = {<<scripts_dir, <<"a",".","p","y">>>>, <<scripts_dir, <<"a","_","1",".","p","y">>>>,
                        <<scripts_dir, <<"a","_","1","_","2",".","p","y">>>>, <<scripts_dir, <<"a","_","1","_","2","_","3",".","p","y">>>>}
  /\ fs.files[<<scripts_dir, <<"a",".","p","y">>>>] = Old
  /\ fs.files[<<scripts_dir, <<"a","_","1",".","p","y">>>>] = Old
  /\ fs.files[<<scripts_dir, <<"a","_","1","_","2",".","p","y">>>>] = code_blocks[1].content
  /\ fs.files[<<scripts_dir, <<"a","_","1","_","2","_","3",".","p","y">>>>] = code_blocks[2].content
  /\ counter = 4

=============================================================================
